---- MODULE Spec2Model ----
(***************************************************************************)
(* Model of GlobalPopulationDashboard.py: the cached CSV loader/validator  *)
(* (load_data), the script body that Streamlit re-executes on every user   *)
(* interaction (load, halt on failure, the four tabs), and the dataframe   *)
(* operations the tabs apply (nlargest, boolean-mask lookup, isin filter,  *)
(* melt).                                                                  *)
(*                                                                         *)
(* A DataFrame is [none, cols, object_cols, rows]: rows is a sequence of   *)
(* records keyed by column name plus "index", the row label read_csv       *)
(* assigns (0-based position in the file) and that dropna, nlargest and    *)
(* boolean masks keep; object_cols are the columns of dtype object (text), *)
(* the others are numeric.  Cells of the file are text; a cell of a        *)
(* numeric column is an integer or NaN.  Columns the script only hands to  *)
(* the charting library (iso_alpha3, the age-share columns, ...) are taken *)
(* to be present and well-formed.                                          *)
(***************************************************************************)
EXTENDS Integers, Sequences, FiniteSets, TLC

VARIABLES fs, cache, parses, src, pc, df, msgs, exc, rendered,
          selected_country, country_data, countries_to_compare,
          comp_df, comp_df_melted, rankings

\* fs        the file system: the contents behind each path
\* cache     the entries of st.cache_data for load_data, by path
\* parses    history: how many times load_data's body ran, by path
\* src       history: the contents load_data's body last read, by path
\* pc        where the current run of the script is, or how it ended
\* df, selected_country, country_data, countries_to_compare, comp_df,
\* comp_df_melted   the script's globals of those names
\* rankings  the three ranking tables of tab1
\* msgs      the st.error / st.info messages shown in the current run
\* exc       the exception that ended the run, "none" without one
\* rendered  the titles, tabs, metrics, charts and tables shown in the run
vars == <<fs, cache, parses, src, pc, df, msgs, exc, rendered,
          selected_country, country_data, countries_to_compare,
          comp_df, comp_df_melted, rankings>>

(***************************************************************************)
(* Bounds of the model.                                                    *)
(***************************************************************************)
\* rows of a file of the script's runs
MaxRows == 4
\* rows of a file handed to the loader alone
MaxLoadRows == 2
\* rows of a file behind the Dataset of the comparison block
MaxCompareRows == 3
\* rows of a Dataset of numeric columns handed to the ranking tables
MaxRankRows == 11

(***************************************************************************)
(* Names and constants of the script.                                      *)
(***************************************************************************)
DATA_FILE == "cleanednewglobal1.csv"

Paths == {DATA_FILE}

numeric_cols ==
    << "Population(in millions)", "Population density",
       "Total Dependency Ratio", "Sex ratio (males per 100 females)" >>

value_vars == numeric_cols

default_countries == {"United States of America", "China", "India", "Kenya"}

TopN == 10

RankCols == {"Population(in millions)", "Population density", "Youth Dependency Ratio"}

AllCols ==
    {"Country", "Continent", "Youth Dependency Ratio"}
        \cup {numeric_cols[i] : i \in 1..Len(numeric_cols)}

\* float('nan'): the missing value of a numeric column (real values are >= 0)
NaN == -1

\* Python's None as a widget value (a selectbox without options)
NoSelection == "None"

ErrNoContinent == "Dataset is missing the required 'Continent' column."
ErrNotFound == "Error: The file was not found."
InfoSameDir == "Please make sure the file is in the same directory as your Streamlit app.py script."
ErrLoading == "An error occurred while loading the data"
InfoSelect == "Please select at least one country to start the comparison."

ErrorMsgs == {ErrNoContinent, ErrNotFound, ErrLoading}

(***************************************************************************)
(* Sequence helpers.                                                       *)
(***************************************************************************)
Range(s) == {s[i] : i \in DOMAIN s}

RECURSIVE SeqsNoDup(_, _)
\* the sequences of at most n distinct elements of S
SeqsNoDup(S, n) ==
    IF n = 0 THEN {<< >>}
    ELSE LET shorter == SeqsNoDup(S, n - 1)
         IN  shorter \cup
             UNION {{Append(s, x) : x \in S \ {s[i] : i \in DOMAIN s}} : s \in shorter}

\* the elements of a finite set in some order
RECURSIVE SetToSeqAny(_)
SetToSeqAny(S) ==
    IF S = {} THEN << >>
    ELSE LET x == CHOOSE y \in S : TRUE IN <<x>> \o SetToSeqAny(S \ {x})

RemoveAt(s, i) == SubSeq(s, 1, i - 1) \o SubSeq(s, i + 1, Len(s))

(***************************************************************************)
(* pandas: the DataFrame and the operations the script calls.              *)
(***************************************************************************)
NoneDF == [none |-> TRUE, cols |-> {}, object_cols |-> {}, rows |-> << >>]

DataFrame(cols, object_cols, rows) ==
    [none |-> FALSE, cols |-> cols, object_cols |-> object_cols, rows |-> rows]

\* the numerals of the modelled files and the numbers they denote
NumVal == ("7" :> 7) @@ ("30" :> 30)

NumText == DOMAIN NumVal

\* a to_numeric that repairs what it cannot parse (fills 0) instead of
\* marking it missing
to_numeric_fill_zero(cell) == IF cell \in DOMAIN NumVal THEN NumVal[cell] ELSE 0

\* pd.to_numeric(cell, errors='coerce') on one cell of an object column:
\* a numeral becomes its number, any other text and the empty cell NaN
to_numeric(cell) == IF cell \in DOMAIN NumVal THEN NumVal[cell] ELSE NaN

\* df[col] = pd.to_numeric(df[col], errors='coerce'): a numeric column is
\* returned as it is, an object column is parsed cell by cell
coerce_col(d, col) ==
    IF col \notin d.object_cols THEN d
    ELSE [d EXCEPT !.object_cols = @ \ {col},
                   !.rows = [i \in DOMAIN d.rows |->
                                [d.rows[i] EXCEPT ![col] = to_numeric(@)]]]

RECURSIVE coerce_loop(_, _)
\* for col in numeric_cols[k..]: coerce_col
coerce_loop(d, k) ==
    IF k > Len(numeric_cols) THEN d
    ELSE coerce_loop(coerce_col(d, numeric_cols[k]), k + 1)

\* dropna(how='all'): drops a row only when every column of subset is NaN
dropna_how_all(d, subset) ==
    [d EXCEPT !.rows = SelectSeq(d.rows, LAMBDA r : \E c \in subset : r[c] # NaN)]

\* df.dropna(subset=subset): keep the rows with no NaN in any column of subset
dropna(d, subset) ==
    [d EXCEPT !.rows = SelectSeq(d.rows, LAMBDA r : \A c \in subset : r[c] # NaN)]

\* read_csv's dtype inference: a column is numeric when it has a cell and
\* every cell is a numeral or empty, and of dtype object otherwise
IsObjectCol(f, c) ==
    \/ f.rows = << >>
    \/ \E i \in DOMAIN f.rows : f.rows[i][c] \notin (DOMAIN NumVal \cup {""})

\* pd.read_csv on a parsable file: the columns of the header, one row per
\* line, labelled 0, 1, ... in file order; the cells of a numeric column
\* are parsed, an empty one to NaN
read_csv(f) ==
    DataFrame(f.cols, {c \in f.cols : IsObjectCol(f, c)},
        [i \in DOMAIN f.rows |->
            [c \in f.cols \cup {"index"} |->
                IF c = "index" THEN i - 1
                ELSE IF IsObjectCol(f, c) THEN f.rows[i][c]
                ELSE IF f.rows[i][c] = "" THEN NaN
                ELSE NumVal[f.rows[i][c]]]])

(***************************************************************************)
(* load_data: the body of the try block, then the except clauses.          *)
(***************************************************************************)
Returned(d, m) == [exc |-> "none", value |-> d, msgs |-> m]

Raised(e) == [exc |-> e, value |-> NoneDF, msgs |-> << >>]

\* the try block without the check of the 'Continent' column
load_data_try_no_schema_check(f) ==
    IF f.kind = "absent" THEN Raised("FileNotFoundError")
    ELSE IF f.kind = "garbled" THEN Raised("ParserError")
    ELSE LET d == read_csv(f) IN
         IF \E k \in 1..Len(numeric_cols) : numeric_cols[k] \notin d.cols
         THEN Raised("KeyError")
         ELSE Returned(dropna(coerce_loop(d, 1), Range(numeric_cols)), << >>)

load_data_try(f) ==
    IF f.kind = "absent" THEN Raised("FileNotFoundError")
    ELSE IF f.kind = "garbled" THEN Raised("ParserError")
    ELSE LET d == read_csv(f) IN
         IF "Continent" \notin d.cols
         THEN Returned(NoneDF, <<ErrNoContinent>>)
         ELSE IF \E k \in 1..Len(numeric_cols) : numeric_cols[k] \notin d.cols
         THEN Raised("KeyError")
         ELSE Returned(dropna(coerce_loop(d, 1), Range(numeric_cols)), << >>)

\* load_data without its last clause, except Exception
load_data_no_catch_all(f) ==
    LET r == load_data_try(f) IN
    IF r.exc = "FileNotFoundError"
    THEN Returned(NoneDF, <<ErrNotFound, InfoSameDir>>)
    ELSE r

load_data(f) ==
    LET r == load_data_try(f) IN
    IF r.exc = "none" THEN r
    ELSE IF r.exc = "FileNotFoundError"
    THEN Returned(NoneDF, <<ErrNotFound, InfoSameDir>>)
    ELSE Returned(NoneDF, <<ErrLoading>>)

(***************************************************************************)
(* st.cache_data: the memo of load_data, keyed by its argument.  An entry  *)
(* holds the returned value and the st.* messages to replay on a hit.      *)
(***************************************************************************)
NoEntry == [hit |-> FALSE, result |-> Returned(NoneDF, << >>)]

\* load_data without the decorator: every call misses
cache_lookup_uncached(c, path) == NoEntry

cache_lookup(c, path) == c[path]


(***************************************************************************)
(* pandas operations of the tabs.                                          *)
(***************************************************************************)
\* df[col].unique() as a set
unique(d, col) == {d.rows[i][col] : i \in DOMAIN d.rows}

\* df[df[col] == v]
mask_eq(d, col, v) == [d EXCEPT !.rows = SelectSeq(d.rows, LAMBDA r : r[col] = v)]

\* a filter that keeps one row for each selected name
mask_isin_first_match(d, col, S) ==
    [d EXCEPT !.rows = SelectSeq(d.rows, LAMBDA r :
                           /\ r[col] \in S
                           /\ \A i \in DOMAIN d.rows :
                                  d.rows[i][col] = r[col] => d.rows[i]["index"] >= r["index"])]

\* df[df[col].isin(S)]
mask_isin(d, col, S) == [d EXCEPT !.rows = SelectSeq(d.rows, LAMBDA r : r[col] \in S)]

\* position of the first row holding the largest value of col
first_max(rows, col) ==
    CHOOSE i \in DOMAIN rows :
        /\ \A j \in DOMAIN rows : rows[j][col] <= rows[i][col]
        /\ \A j \in 1..(i - 1) : rows[j][col] < rows[i][col]

RECURSIVE select_n(_, _, _)
\* the n largest rows by col, largest first, keep='first'
select_n(rows, n, col) ==
    IF n <= 0 \/ rows = << >> THEN << >>
    ELSE LET i == first_max(rows, col)
         IN  <<rows[i]>> \o select_n(RemoveAt(rows, i), n - 1, col)

\* df.nlargest(n, col): KeyError without the column, TypeError on a column
\* of dtype object, the n largest rows otherwise
nlargest_exc(d, col) ==
    IF col \notin d.cols THEN "KeyError"
    ELSE IF col \in d.object_cols THEN "TypeError"
    ELSE "none"

nlargest(d, n, col) == [d EXCEPT !.rows = select_n(d.rows, n, col)]

\* df[[...]]: the listed columns (and the row labels)
project(d, colset) ==
    [d EXCEPT !.cols = colset,
              !.object_cols = @ \cap colset,
              !.rows = [i \in DOMAIN d.rows |->
                           [c \in colset \cup {"index"} |-> d.rows[i][c]]]]

\* a melt that leaves out the last of the value columns
melt_drops_last_metric(d) ==
    LET n == Len(d.rows)
    IN  DataFrame({"Country", "Metric", "Value"}, {"Country", "Metric"},
            [p \in 1..((Len(value_vars) - 1) * n) |->
                LET k == ((p - 1) \div n) + 1
                    i == ((p - 1) % n) + 1
                IN  [index |-> p - 1,
                     Country |-> d.rows[i]["Country"],
                     Metric |-> value_vars[k],
                     Value |-> d.rows[i][value_vars[k]]]])

\* comp_df.melt(id_vars='Country', value_vars=..., var_name='Metric',
\* value_name='Value'): one block of rows per value column, in value_vars
\* order, each block in the order of comp_df; rows are relabelled 0, 1, ...
melt(d) ==
    LET n == Len(d.rows)
    IN  DataFrame({"Country", "Metric", "Value"}, {"Country", "Metric"},
            [p \in 1..(Len(value_vars) * n) |->
                LET k == ((p - 1) \div n) + 1
                    i == ((p - 1) % n) + 1
                IN  [index |-> p - 1,
                     Country |-> d.rows[i]["Country"],
                     Metric |-> value_vars[k],
                     Value |-> d.rows[i][value_vars[k]]]])

\* lines 107-117: the three ranking tables of tab1, in the order of the
\* script; the first that raises ends the block
RankOrder == <<"Population(in millions)", "Population density", "Youth Dependency Ratio">>

tab1_rankings_exc(d) ==
    IF \A k \in DOMAIN RankOrder : nlargest_exc(d, RankOrder[k]) = "none" THEN "none"
    ELSE nlargest_exc(d, RankOrder[CHOOSE k \in DOMAIN RankOrder :
                                     /\ nlargest_exc(d, RankOrder[k]) # "none"
                                     /\ \A j \in 1..(k - 1) :
                                            nlargest_exc(d, RankOrder[j]) = "none"])

tab1_rankings(d) ==
    [c \in RankCols |->
        IF \E k \in DOMAIN RankOrder :
              /\ RankOrder[k] = c
              /\ \A j \in 1..k : nlargest_exc(d, RankOrder[j]) = "none"
        THEN project(nlargest(d, TopN, c), {"Country", c})
        ELSE DataFrame({}, {}, << >>)]

(***************************************************************************)
(* The files of the model.                                                 *)
(***************************************************************************)
Row(country, continent, p, d, t, s, y) ==
    [c \in AllCols |->
        CASE c = "Country" -> country
          [] c = "Continent" -> continent
          [] c = "Population(in millions)" -> p
          [] c = "Population density" -> d
          [] c = "Total Dependency Ratio" -> t
          [] c = "Sex ratio (males per 100 females)" -> s
          [] c = "Youth Dependency Ratio" -> y]

Restrict(r, cols) == [c \in cols |-> r[c]]

Absent == [kind |-> "absent", cols |-> {}, rows |-> << >>]

Garbled == [kind |-> "garbled", cols |-> {}, rows |-> << >>]

Table(cols, rows) ==
    [kind |-> "table", cols |-> cols,
     rows |-> [i \in DOMAIN rows |-> Restrict(rows[i], cols)]]

\* the header of the cleaned file, and headers with one column lost
ColVariants ==
    {AllCols, AllCols \ {"Continent"}, AllCols \ {"Population density"},
     AllCols \ {"Youth Dependency Ratio"}}

Pool ==
    { Row("China", "Asia", "30", "30", "7", "30", "7"),
      Row("India", "Asia", "30", "7", "7", "7", "30"),
      Row("Kenya", "Africa", "7", "7", "30", "7", "30"),
      Row("United States of America", "Other", "7", "30", "7", "7", "7"),
      Row("Chad", "Africa", "x", "7", "7", "7", "30"),
      Row("Fiji", "Other", "7", "7", "7", "30", "x") }

MainFiles ==
    {Absent, Garbled} \cup
    {Table(cols, rows) : cols \in ColVariants, rows \in SeqsNoDup(Pool, MaxRows)}

(***************************************************************************)
(* State of one run of the script, before its first statement.             *)
(***************************************************************************)
NoRow == [index |-> -1]

EmptyDF == DataFrame({}, {}, << >>)

NoRankings == [c \in RankCols |-> EmptyDF]

Ended == {"done", "stopped", "crashed"}

RunReset ==
    /\ pc' = "start"
    /\ df' = NoneDF
    /\ msgs' = << >>
    /\ exc' = "none"
    /\ rendered' = {}
    /\ selected_country' = NoSelection
    /\ country_data' = NoRow
    /\ countries_to_compare' = {}
    /\ comp_df' = EmptyDF
    /\ comp_df_melted' = EmptyDF
    /\ rankings' = NoRankings

InitRun ==
    /\ pc = "start"
    /\ df = NoneDF
    /\ msgs = << >>
    /\ exc = "none"
    /\ rendered = {}
    /\ selected_country = NoSelection
    /\ country_data = NoRow
    /\ countries_to_compare = {}
    /\ comp_df = EmptyDF
    /\ comp_df_melted = EmptyDF
    /\ rankings = NoRankings

InitCache ==
    /\ cache = [p \in Paths |-> NoEntry]
    /\ parses = [p \in Paths |-> 0]
    /\ src = [p \in Paths |-> Absent]

Init ==
    /\ fs \in [Paths -> MainFiles]
    /\ InitCache
    /\ InitRun

(***************************************************************************)
(* The script, one action per block.                                       *)
(***************************************************************************)
\* lines 49-63: title, df = load_data(DATA_FILE) through st.cache_data,
\* st.stop() on None, st.tabs
Load ==
    /\ pc = "start"
    /\ LET e == cache_lookup(cache, DATA_FILE)
           r == IF e.hit THEN e.result ELSE load_data(fs[DATA_FILE])
       IN  /\ IF e.hit
              THEN UNCHANGED <<cache, parses, src>>
              ELSE /\ cache' = IF r.exc = "none"
                                 THEN [cache EXCEPT ![DATA_FILE] = [hit |-> TRUE, result |-> r]]
                                 ELSE cache
                   /\ parses' = [parses EXCEPT ![DATA_FILE] = @ + 1]
                   /\ src' = [src EXCEPT ![DATA_FILE] = fs[DATA_FILE]]
           /\ df' = r.value
           /\ msgs' = msgs \o r.msgs
           /\ exc' = r.exc
           /\ IF r.exc # "none"
              THEN pc' = "crashed" /\ rendered' = {"title"}
              ELSE IF r.value.none
              THEN pc' = "stopped" /\ rendered' = {"title"}
              ELSE pc' = "tab1" /\ rendered' = {"title", "tabs"}
    /\ UNCHANGED <<fs, selected_country, country_data, countries_to_compare,
                   comp_df, comp_df_melted, rankings>>

\* lines 66-117: metrics, map, ranking tables
Tab1 ==
    /\ pc = "tab1"
    /\ rankings' = tab1_rankings(df)
    /\ exc' = tab1_rankings_exc(df)
    /\ IF tab1_rankings_exc(df) = "none"
       THEN /\ rendered' = rendered \cup {"tab1.metrics", "tab1.map", "tab1.rankings"}
            /\ pc' = "tab2"
       ELSE /\ rendered' = rendered \cup {"tab1.metrics", "tab1.map"}
            /\ pc' = "crashed"
    /\ UNCHANGED <<fs, cache, parses, src, df, msgs, selected_country, country_data,
                   countries_to_compare, comp_df, comp_df_melted>>

\* lines 120-167: the three charts of the deep-dive
Tab2 ==
    /\ pc = "tab2"
    /\ rendered' = rendered \cup {"tab2.charts"}
    /\ pc' = "tab3"
    /\ UNCHANGED <<fs, cache, parses, src, df, msgs, exc, selected_country, country_data,
                   countries_to_compare, comp_df, comp_df_melted, rankings>>

\* st.selectbox(label, options): the user's choice among the options, None
\* when there is none
selectbox(options) == IF options = {} THEN {NoSelection} ELSE options

\* line 196: df[df['Country'] == selected_country].iloc[0]
country_lookup(d, name) ==
    LET m == mask_eq(d, "Country", name)
    IN  IF m.rows = << >>
        THEN [exc |-> "IndexError", row |-> NoRow]
        ELSE [exc |-> "none", row |-> m.rows[1]]

\* lines 170-233: continent and country selection, lookup, profile
Tab3 ==
    /\ pc = "tab3"
    /\ \E selected_continent \in selectbox({"All"} \cup unique(df, "Continent")) :
         LET country_list ==
                 IF selected_continent = "All"
                 THEN unique(df, "Country")
                 ELSE unique(mask_eq(df, "Continent", selected_continent), "Country")
         IN  \E choice \in selectbox(country_list) :
               LET found == country_lookup(df, choice)
               IN  /\ selected_country' = choice
                   /\ country_data' = found.row
                   /\ exc' = found.exc
                   /\ IF found.exc = "none"
                      THEN /\ pc' = "tab4"
                           /\ rendered' = rendered \cup {"tab3.metrics", "tab3.donut"}
                      ELSE /\ pc' = "crashed"
                           /\ rendered' = rendered
    /\ UNCHANGED <<fs, cache, parses, src, df, msgs, countries_to_compare,
                   comp_df, comp_df_melted, rankings>>

\* lines 248-283: the comparison of the selected countries
Compare(S) ==
    /\ countries_to_compare' = S
    /\ IF S # {}
       THEN /\ comp_df' = mask_isin(df, "Country", S)
            /\ comp_df_melted' = melt(mask_isin(df, "Country", S))
            /\ rendered' = rendered \cup {"tab4.chart", "tab4.table"}
            /\ msgs' = msgs
       ELSE /\ UNCHANGED <<comp_df, comp_df_melted>>
            /\ rendered' = rendered
            /\ msgs' = Append(msgs, InfoSelect)
    /\ pc' = "done"

\* lines 237-283: st.multiselect raises when a default is not an option
Tab4 ==
    /\ pc = "tab4"
    /\ LET options == unique(df, "Country")
       IN  IF default_countries \subseteq options
           THEN /\ \E S \in SUBSET options : Compare(S)
                /\ exc' = exc
           ELSE /\ pc' = "crashed"
                /\ exc' = "StreamlitAPIException"
                /\ UNCHANGED <<rendered, msgs, countries_to_compare, comp_df,
                               comp_df_melted>>
    /\ UNCHANGED <<fs, cache, parses, src, df, selected_country, country_data,
                   rankings>>

\* a user interaction: Streamlit runs the script again, in the same process
Rerun ==
    /\ pc \in Ended
    /\ RunReset
    /\ UNCHANGED <<fs, cache, parses, src>>

\* between two runs the file is removed
DeleteFile ==
    /\ pc \in Ended
    /\ fs[DATA_FILE].kind # "absent"
    /\ fs' = [fs EXCEPT ![DATA_FILE] = Absent]
    /\ UNCHANGED <<cache, parses, src, pc, df, msgs, exc, rendered, selected_country,
                   country_data, countries_to_compare, comp_df, comp_df_melted, rankings>>

\* between two runs the file loses its last line
TruncateFile ==
    /\ pc \in Ended
    /\ fs[DATA_FILE].kind = "table"
    /\ fs[DATA_FILE].rows # << >>
    /\ fs' = [fs EXCEPT ![DATA_FILE].rows = SubSeq(@, 1, Len(@) - 1)]
    /\ UNCHANGED <<cache, parses, src, pc, df, msgs, exc, rendered, selected_country,
                   country_data, countries_to_compare, comp_df, comp_df_melted, rankings>>

Next ==
    \/ Load
    \/ Tab1
    \/ Tab2
    \/ Tab3
    \/ Tab4
    \/ Rerun
    \/ DeleteFile
    \/ TruncateFile

Spec == Init /\ [][Next]_vars

(***************************************************************************)
(* The loader alone, on files with every mix of numeric, non-numeric and   *)
(* empty cells in the four core columns.                                   *)
(***************************************************************************)
LoadNames == <<"China", "India", "Kenya", "Chad", "Fiji">>

\* the core cells of one line: numerals and text in every mix, or one empty
\* cell, or a second numeral
CoreCells ==
    [1..4 -> {"7", "x"}]
        \cup {[k \in 1..4 |-> IF k = e THEN "" ELSE "7"] : e \in 1..4}
        \cup {[k \in 1..4 |-> IF k = e THEN "30" ELSE "7"] : e \in 1..2}

RECURSIVE LoadRowSeqs(_)
\* the files of at most n lines; line i is the i-th country
LoadRowSeqs(n) ==
    IF n = 0 THEN {<< >>}
    ELSE LoadRowSeqs(n - 1) \cup
         {Append(s, Row(LoadNames[n], "Asia", c[1], c[2], c[3], c[4], "7")) :
              s \in {t \in LoadRowSeqs(n - 1) : Len(t) = n - 1}, c \in CoreCells}

LoadFiles ==
    {Absent, Garbled} \cup
    {Table(cols, rows) : cols \in ColVariants, rows \in LoadRowSeqs(MaxLoadRows)}

InitLoad ==
    /\ fs \in [Paths -> LoadFiles]
    /\ InitCache
    /\ InitRun

NextLoad == Load

SpecLoad == InitLoad /\ [][NextLoad]_vars

(***************************************************************************)
(* The comparison block alone, on any selection of names, among them names *)
(* no row carries and names two rows carry.                                *)
(***************************************************************************)
ComparePool ==
    Pool \cup {Row("China", "Asia", "7", "7", "30", "7", "7")}

CompareNames == unique(read_csv(Table(AllCols, SetToSeqAny(ComparePool))), "Country") \cup {"Atlantis"}

InitCompare ==
    /\ fs \in [Paths -> {Table(AllCols, rows) : rows \in SeqsNoDup(ComparePool, MaxCompareRows)}]
    /\ cache = [p \in Paths |-> [hit |-> TRUE, result |-> load_data(fs[p])]]
    /\ parses = [p \in Paths |-> 1]
    /\ src = fs
    /\ pc = "tab4"
    /\ df = load_data(fs[DATA_FILE]).value
    /\ msgs = << >>
    /\ exc = "none"
    /\ rendered = {"title", "tabs"}
    /\ selected_country = NoSelection
    /\ country_data = NoRow
    /\ countries_to_compare = {}
    /\ comp_df = EmptyDF
    /\ comp_df_melted = EmptyDF
    /\ rankings = NoRankings

CompareAny ==
    /\ pc = "tab4"
    /\ \E S \in SUBSET CompareNames : Compare(S)
    /\ UNCHANGED <<fs, cache, parses, src, df, exc, selected_country,
                   country_data, rankings>>

NextCompare == CompareAny

SpecCompare == InitCompare /\ [][NextCompare]_vars

(***************************************************************************)
(* The ranking tables alone, on Datasets whose ranked columns are all      *)
(* numeric, with more rows than a table holds and with equal values.       *)
(***************************************************************************)
RankFrame(col, vals) ==
    DataFrame(AllCols, {"Country", "Continent"},
        [i \in DOMAIN vals |->
            [c \in AllCols \cup {"index"} |->
                IF c = "index" THEN i - 1
                ELSE IF c = "Country" THEN LoadNames[((i - 1) % Len(LoadNames)) + 1]
                ELSE IF c = "Continent" THEN "Asia"
                ELSE IF c = col THEN vals[i]
                ELSE 7]])

InitRank ==
    /\ fs = [p \in Paths |-> Absent]
    /\ InitCache
    /\ pc = "tab1"
    /\ \E col \in RankCols : \E n \in 0..MaxRankRows : \E vals \in [1..n -> {7, 30}] :
           df = RankFrame(col, vals)
    /\ msgs = << >>
    /\ exc = "none"
    /\ rendered = {"title", "tabs"}
    /\ selected_country = NoSelection
    /\ country_data = NoRow
    /\ countries_to_compare = {}
    /\ comp_df = EmptyDF
    /\ comp_df_melted = EmptyDF
    /\ rankings = NoRankings

NextRank == Tab1

SpecRank == InitRank /\ [][NextRank]_vars

(***************************************************************************)
(* Properties.                                                             *)
(***************************************************************************)
CoreCols == Range(numeric_cols)

Loaded == pc # "start" /\ ~df.none

\* the lines of the parsed file whose four core cells are all numerals
GoodLines(f) == {i \in DOMAIN f.rows : \A c \in CoreCols : f.rows[i][c] \in NumText}

HasError(m) == \E i \in DOMAIN m : m[i] \in ErrorMsgs

\* C1: every record of a Dataset that load_data returns has a non-missing
\* numeric value in each of the four core numeric fields.
C1_CoreFieldsPresent ==
    Loaded =>
        \A i \in DOMAIN df.rows : \A c \in CoreCols :
            /\ c \in df.cols
            /\ c \notin df.object_cols
            /\ df.rows[i][c] \in Nat
            /\ df.rows[i][c] # NaN

\* C1 witness: a file with a line that is kept and a line that is dropped
C1_Witness ==
    /\ Loaded
    /\ Len(df.rows) >= 1
    /\ Len(df.rows) < Len(src[DATA_FILE].rows)

\* C2: whatever the file (absent, unparsable, a required column absent,
\* valid), load_data returns a Dataset, or None with an error message shown;
\* no exception leaves it.
C2_NeverRaises ==
    pc # "start" =>
        /\ exc = "none"
        /\ pc # "crashed"
        /\ \/ df.none /\ HasError(msgs)
           \/ ~df.none /\ ~HasError(msgs) /\ "Continent" \in df.cols

\* C2 witness: an exception raised inside the try block (a core column is
\* absent) has been reported as a loading error
C2_Witness ==
    /\ pc = "stopped"
    /\ src[DATA_FILE].kind = "table"
    /\ "Continent" \in src[DATA_FILE].cols
    /\ msgs = <<ErrLoading>>
    /\ df.none

MissingOrNoContinent(f) ==
    \/ f.kind = "absent"
    \/ f.kind = "table" /\ "Continent" \notin f.cols

\* C3: when the file is missing or has no 'Continent' column, the failure is
\* reported with its message and the run halts: it renders no tab, metric,
\* chart or table, and it does not crash.  This holds of every run that
\* gets the failed load, also from the cache.
C3_FailureHalts ==
    (pc # "start" /\ MissingOrNoContinent(src[DATA_FILE])) =>
        /\ pc = "stopped"
        /\ exc = "none"
        /\ rendered = {"title"}
        /\ df.none
        /\ IF src[DATA_FILE].kind = "absent"
           THEN msgs = <<ErrNotFound, InfoSameDir>>
           ELSE msgs = <<ErrNoContinent>>

\* C3 witness: a halted run on a file with rows and no 'Continent' column
C3_Witness ==
    /\ pc = "stopped"
    /\ src[DATA_FILE].kind = "table"
    /\ "Continent" \notin src[DATA_FILE].cols
    /\ src[DATA_FILE].rows # << >>
    /\ msgs = <<ErrNoContinent>>

\* C4: the Dataset is exactly the lines of the file whose four core cells
\* parse as numbers, in file order, each whole and unrepaired; its length is
\* the number of lines minus the number of excluded lines.
C4_ExactlyTheNumericRows ==
    Loaded =>
        LET f == src[DATA_FILE]
            excluded == DOMAIN f.rows \ GoodLines(f)
        IN  /\ {df.rows[j]["index"] + 1 : j \in DOMAIN df.rows} = GoodLines(f)
            /\ \A j, k \in DOMAIN df.rows :
                   j < k => df.rows[j]["index"] < df.rows[k]["index"]
            /\ Len(df.rows) = Len(f.rows) - Cardinality(excluded)
            /\ \A j \in DOMAIN df.rows :
                   LET line == f.rows[df.rows[j]["index"] + 1]
                   IN  /\ df.rows[j]["Country"] = line["Country"]
                       /\ df.rows[j]["Continent"] = line["Continent"]
                       /\ \A c \in CoreCols : df.rows[j][c] = NumVal[line[c]]

\* C4 witness: the first line is dropped and the second kept, with a value
\* other than the first line's
C4_Witness ==
    /\ Loaded
    /\ Len(src[DATA_FILE].rows) = 2
    /\ Len(df.rows) = 1
    /\ df.rows[1]["index"] = 1
    /\ df.rows[1]["Population(in millions)"] = 30

\* C5: the cache entry of a path is written at most once; every run after
\* the first gets the value parsed by the first, whatever the file has
\* become.
C5_ParsedOnce ==
    \A p \in Paths :
        /\ parses[p] <= 1
        /\ cache[p].hit <=> parses[p] = 1
        /\ cache[p].hit => cache[p].result = load_data(src[p])
        /\ (pc # "start" /\ p = DATA_FILE) =>
               /\ cache[p].hit
               /\ df = cache[p].result.value

\* C5 witness: a run after the file was changed shows the Dataset of the
\* first parse
C5_Witness ==
    /\ pc = "tab1"
    /\ parses[DATA_FILE] = 1
    /\ fs[DATA_FILE] # src[DATA_FILE]
    /\ df = load_data(src[DATA_FILE]).value
    /\ df # load_data(fs[DATA_FILE]).value

\* C6: every run completes and renders its views or halts on a reported
\* error; none ends in an unhandled exception.
C6_NoUnhandledException ==
    /\ pc # "crashed"
    /\ exc = "none"

\* C7: the country lookup returns the record of the selected country, and a
\* selection without a record ends in a checked, reported NotFoundError,
\* never in an unchecked failure.
C7_LookupChecked ==
    /\ pc \in {"tab4", "done"} =>
           /\ country_data \in Range(df.rows)
           /\ country_data["Country"] = selected_country
    /\ exc # "IndexError"

RankingOf(d, c, r) ==
    LET n == IF Len(d.rows) < TopN THEN Len(d.rows) ELSE TopN
    IN  /\ r.cols = {"Country", c}
        /\ Len(r.rows) = n
        /\ \A i \in DOMAIN r.rows :
               \E j \in DOMAIN d.rows :
                   /\ r.rows[i]["index"] = d.rows[j]["index"]
                   /\ r.rows[i]["Country"] = d.rows[j]["Country"]
                   /\ r.rows[i][c] = d.rows[j][c]
        /\ \A i, k \in DOMAIN r.rows :
               i < k => \/ r.rows[i][c] > r.rows[k][c]
                        \/ /\ r.rows[i][c] = r.rows[k][c]
                           /\ r.rows[i]["index"] < r.rows[k]["index"]
        /\ \A j \in DOMAIN d.rows :
               (\A i \in DOMAIN r.rows : r.rows[i]["index"] # d.rows[j]["index"]) =>
                   \A i \in DOMAIN r.rows : r.rows[i][c] >= d.rows[j][c]

\* C8: for a Dataset D with the ranked fields, the ranking tables (top 10 by
\* population, density and youth dependency ratio) each hold min(10, |D|)
\* records of D, sorted descending, equal values in row order, none of the
\* omitted records larger than a listed one; an empty D gives empty
\* rankings without failing.
C8_RankingsReturned ==
    (pc \in {"tab2", "tab3", "tab4", "done", "crashed"} /\ RankCols \subseteq df.cols) =>
        /\ exc # "TypeError"
        /\ \A c \in RankCols : RankingOf(df, c, rankings[c])

\* under SpecRank, where the three ranked columns are numeric, the ranking
\* tables are as stated, also with 11 rows cut to 10 and with equal values
RankingsOfNumericColumns ==
    (pc = "tab2" /\ df.object_cols \cap RankCols = {}) =>
        \A c \in RankCols : RankingOf(df, c, rankings[c])

RankingCutsAndTies ==
    /\ pc = "tab2"
    /\ Len(df.rows) = TopN + 1
    /\ Len(rankings["Youth Dependency Ratio"].rows) = TopN
    /\ rankings["Youth Dependency Ratio"].rows[1]["index"] = 3
    /\ rankings["Youth Dependency Ratio"].rows[2]["index"] = 5
    /\ rankings["Youth Dependency Ratio"].rows[3]["index"] = 0

\* C9: the multi-country filter on a non-empty selection S returns exactly
\* the records of the Dataset whose country is in S, in Dataset order; a
\* name of S that no record carries adds nothing and raises nothing.
C9_FilterIsSubsetInOrder ==
    (pc = "done" /\ countries_to_compare # {}) =>
        /\ exc = "none"
        /\ \A i \in DOMAIN comp_df.rows : comp_df.rows[i] \in Range(df.rows)
        /\ {comp_df.rows[i]["index"] : i \in DOMAIN comp_df.rows}
               = {df.rows[j]["index"] : j \in {k \in DOMAIN df.rows :
                                                  df.rows[k]["Country"] \in countries_to_compare}}
        /\ \A i, k \in DOMAIN comp_df.rows :
               i < k => comp_df.rows[i]["index"] < comp_df.rows[k]["index"]

\* C9 witness: a selection with a name no record carries gives fewer records
\* than names, two of them out of one name
C9_Witness ==
    /\ pc = "done"
    /\ "Atlantis" \in countries_to_compare
    /\ Cardinality(countries_to_compare) = 3
    /\ Len(comp_df.rows) = 2
    /\ comp_df.rows[1]["Country"] = comp_df.rows[2]["Country"]

MeltedCell(r) == <<r["Country"], r["Metric"], r["Value"]>>

\* C10: the reshape of k records and the four metrics has exactly 4*k rows
\* with the fields Country, Metric, Value: as many rows for each
\* (country, metric, value) as records that carry it, and no other row.
C10_MeltOnePerPair ==
    (pc = "done" /\ countries_to_compare # {}) =>
        LET out == comp_df_melted.rows
            inp == comp_df.rows
        IN  /\ comp_df_melted.cols = {"Country", "Metric", "Value"}
            /\ Len(out) = 4 * Len(inp)
            /\ \A p \in DOMAIN out : DOMAIN out[p] = {"index", "Country", "Metric", "Value"}
            /\ \A i \in DOMAIN inp : \A m \in CoreCols :
                   Cardinality({p \in DOMAIN out :
                                   MeltedCell(out[p]) = <<inp[i]["Country"], m, inp[i][m]>>})
                     = Cardinality({j \in DOMAIN inp :
                                       /\ inp[j]["Country"] = inp[i]["Country"]
                                       /\ inp[j][m] = inp[i][m]})
            /\ \A p \in DOMAIN out :
                   \E i \in DOMAIN inp :
                       /\ out[p]["Metric"] \in CoreCols
                       /\ out[p]["Country"] = inp[i]["Country"]
                       /\ out[p]["Value"] = inp[i][out[p]["Metric"]]

\* C10 witness: two records reshaped into eight rows
C10_Witness ==
    /\ pc = "done"
    /\ Len(comp_df.rows) = 2
    /\ Len(comp_df_melted.rows) = 8
    /\ comp_df.rows[1]["Country"] # comp_df.rows[2]["Country"]

====
